---- MODULE Spec2Model ----
(***************************************************************************)
(* A model of compiler.py: the regex Lexer, the recursive-descent Parser   *)
(* and the four symbol tables (ordered list, dict, binary search tree,     *)
(* chained hash table).                                                    *)
(*                                                                         *)
(* Text is a sequence of one-character strings, indexed from 1; the        *)
(* program's cursors (pos, token_index) keep their 0-based values.         *)
(* A token is <<kind, text>>; Python's None is the tuple <<"None">>.       *)
(***************************************************************************)
EXTENDS Integers, Sequences, FiniteSets, TLC

VARIABLES
    pc,             \* where the driver is: "tokenize" (in the loop), "lexed",
                    \*   "parser" (constructed), "parsed", "tables"
    code,           \* Lexer.code
    pos,            \* tokenize's cursor
    tokens,         \* tokenize's token list
    spans,          \* <<token_type, value>> of every loop iteration, comments included
    parser_tokens,  \* Parser.tokens
    token_index,    \* Parser.token_index
    current_token,  \* Parser.current_token
    ret,            \* the last Parser call: <<method, argument, returned node,
                    \*   exception raised, token_index it was made at>>
    cls,            \* which symbol-table object the driver works on
    symbols,        \* OrderedSymbolTable.symbols : list of <<name, value>>
    usymbols,       \* UnorderedSymbolTable.symbols : dict, a function on its key set
    root,           \* TreeStructuredSymbolTable.root
    table,          \* HashSymbolTable.table : list of buckets
    size,           \* HashSymbolTable.size
    hashOf,         \* the process's str hash (fixed per interpreter run)
    firstAdd,       \* per name, the value of the first add_symbol call made with it
    lastAdd,        \* per name, the value of the latest add_symbol call made with it
    got             \* outcome of the last get_symbol call: <<name, value>>

lexVars    == <<code, pos, tokens, spans>>
parserVars == <<parser_tokens, token_index, current_token, ret>>
tableVars  == <<cls, symbols, usymbols, root, table, size, hashOf, firstAdd, lastAdd, got>>
vars       == <<pc, lexVars, parserVars, tableVars>>

None == <<"None">>

----------------------------------------------------------------------------
(* Bounds *)

MaxLen == 4          \* length of the enumerated source texts
MaxTokens == 3       \* length of the enumerated hand-built token sequences
MaxOperands == 4     \* operands in the enumerated operator chains
MaxAdds == 4         \* add_symbol calls on one OrderedSymbolTable (its list only grows)
MaxSize == 2         \* bucket count passed to HashSymbolTable

----------------------------------------------------------------------------
(* Characters and the five lexical rules *)

Lower == {"a","b","c","d","e","f","g","h","i","j","k","l","m",
          "n","o","p","q","r","s","t","u","v","w","x","y","z"}
Upper == {"A","B","C","D","E","F","G","H","I","J","K","L","M",
          "N","O","P","Q","R","S","T","U","V","W","X","Y","Z"}
Digit == {"0","1","2","3","4","5","6","7","8","9"}
IdStart == Lower \cup Upper \cup {"_"}
IdCont == IdStart \cup Digit
OpChars == {"-","+","*","/","=","(",")",","}

\* Number of consecutive characters of text, from 1-based index i, that lie in S.
RECURSIVE Run(_, _, _)
Run(text, i, S) ==
    IF i <= Len(text) /\ text[i] \in S THEN 1 + Run(text, i + 1, S) ELSE 0

\* Number of consecutive characters of text, from 1-based index i, that are not c.
RECURSIVE RunNot(_, _, _)
RunNot(text, i, c) ==
    IF i <= Len(text) /\ text[i] # c THEN 1 + RunNot(text, i + 1, c) ELSE 0

\* regex.match(text, p) for each pattern: the length of the match that starts
\* exactly at 0-based p, or -1 when the pattern does not match there.
MatchIdentifier(text, p) ==
    IF text[p + 1] \in IdStart THEN 1 + Run(text, p + 2, IdCont) ELSE -1

\* Variant: \d* in place of \d+, which matches the empty string anywhere.
MatchNumberStar(text, p) == Run(text, p + 1, Digit)

MatchNumber(text, p) ==
    IF text[p + 1] \in Digit THEN Run(text, p + 1, Digit) ELSE -1

MatchOperator(text, p) ==
    IF text[p + 1] \in OpChars THEN 1 ELSE -1

MatchString(text, p) ==
    IF text[p + 1] = "\""
    THEN LET n == RunNot(text, p + 2, "\"")
         IN  IF p + 2 + n <= Len(text) THEN n + 2 ELSE -1
    ELSE -1

MatchComment(text, p) ==
    IF text[p + 1] = "#" THEN 1 + RunNot(text, p + 2, "\n") ELSE -1

patterns == << "IDENTIFIER", "NUMBER", "OPERATOR", "STRING", "COMMENT" >>

Match(token_type, text, p) ==
    CASE token_type = "IDENTIFIER" -> MatchIdentifier(text, p)
      [] token_type = "NUMBER"     -> MatchNumber(text, p)
      [] token_type = "OPERATOR"   -> MatchOperator(text, p)
      [] token_type = "STRING"     -> MatchString(text, p)
      [] token_type = "COMMENT"    -> MatchComment(text, p)

\* The for loop over patterns: index of the first pattern that matches at p,
\* 0 when none does (match is None after the loop).
FirstMatch(text, p) ==
    LET hits == {i \in 1..Len(patterns) : Match(patterns[i], text, p) >= 0}
    IN  IF hits = {} THEN 0 ELSE CHOOSE i \in hits : \A j \in hits : i <= j

\* match.group(0) and match.end() of a match of length n at p.
Slice(text, p, n) == SubSeq(text, p + 1, p + n)

\* Variant: the cursor skips the character after the match.
MatchEndSkip(p, n) == p + n + 1

MatchEnd(p, n) == p + n

----------------------------------------------------------------------------
(* Lexer.tokenize *)

\* One iteration of the while loop.
TokenizeStep ==
    /\ pc = "tokenize"
    /\ pos < Len(code)
    /\ LET m == FirstMatch(code, pos)
       IN  IF m = 0
           THEN /\ tokens' = Append(tokens, <<"INVALID", <<code[pos + 1]>>>>)
                /\ spans' = Append(spans, <<"INVALID", <<code[pos + 1]>>>>)
                /\ pos' = pos + 1
           ELSE LET token_type == patterns[m]     \* match is not None
                    value == Slice(code, pos, Match(token_type, code, pos))
                IN  /\ tokens' = IF token_type # "COMMENT"
                                 THEN Append(tokens, <<token_type, value>>)
                                 ELSE tokens
                    /\ spans' = Append(spans, <<token_type, value>>)
                    /\ pos' = MatchEnd(pos, Match(token_type, code, pos))
    /\ UNCHANGED <<pc, code, parserVars, tableVars>>

\* The loop condition fails: tokenize returns, Lexer.tokens is set.
TokenizeReturn ==
    /\ pc = "tokenize"
    /\ ~(pos < Len(code))
    /\ pc' = "lexed"
    /\ UNCHANGED <<lexVars, parserVars, tableVars>>

----------------------------------------------------------------------------
(* Parser.  The methods are operators on (tokens, token_index); each returns *)
(* [node, idx, exc]: the value returned (None when the method returns        *)
(* nothing or raises), the cursor it leaves, and the exception it raises.    *)

NoExc == <<>>
TypeError == <<"TypeError">>
SyntaxError(expected, actual) == <<"SyntaxError", expected, actual>>

\* self.current_token as advance() sets it for a cursor value.
Current(toks, idx) == IF idx < Len(toks) THEN toks[idx + 1] ELSE None

advance(toks, idx) == idx + 1

eat(toks, idx, token_type) ==
    LET cur == Current(toks, idx)
    IN  IF cur # None /\ cur[1] = token_type
        THEN [node |-> None, idx |-> advance(toks, idx), exc |-> NoExc]
        ELSE IF cur = None
             \* the message's self.current_token[0] subscripts None
             THEN [node |-> None, idx |-> idx, exc |-> TypeError]
             ELSE [node |-> None, idx |-> idx, exc |-> SyntaxError(token_type, cur[1])]

\* The result of a callee that raised, passed up unchanged.
Raise(r) == [node |-> None, idx |-> r.idx, exc |-> r.exc]

Leaf(tag, toks, idx, token_type) ==
    LET e == eat(toks, idx, token_type)
    IN  IF e.exc # NoExc THEN Raise(e)
        ELSE [node |-> <<tag, Current(toks, idx)[2]>>, idx |-> e.idx, exc |-> NoExc]

FactorFallThrough(toks, idx) == [node |-> None, idx |-> idx, exc |-> NoExc]

RECURSIVE factor(_, _), term(_, _), expr(_, _), termLoop(_, _, _), exprLoop(_, _, _)

factor(toks, idx) ==
    LET token == Current(toks, idx)
    IN  IF token = None
        THEN [node |-> None, idx |-> idx, exc |-> TypeError]   \* token[0] on None
        ELSE IF token[1] = "NUMBER" THEN Leaf("number", toks, idx, "NUMBER")
        ELSE IF token[1] = "IDENTIFIER" THEN Leaf("identifier", toks, idx, "IDENTIFIER")
        ELSE IF token[1] = "STRING" THEN Leaf("string", toks, idx, "STRING")
        ELSE IF token[1] = "("
             THEN LET open == eat(toks, idx, "(")
                  IN  IF open.exc # NoExc THEN Raise(open)
                      ELSE LET inner == expr(toks, open.idx)
                           IN  IF inner.exc # NoExc THEN Raise(inner)
                               ELSE LET close == eat(toks, inner.idx, ")")
                                    IN  IF close.exc # NoExc THEN Raise(close)
                                        ELSE [node |-> inner.node, idx |-> close.idx,
                                              exc |-> NoExc]
        ELSE FactorFallThrough(toks, idx)

TermFold(op, node, right) == <<"binop", op, node, right>>

termLoop(toks, idx, node) ==
    LET cur == Current(toks, idx)
    IN  IF cur # None /\ cur[1] \in {"*", "/"}
        THEN LET op == IF cur[1] = "*" THEN "mul" ELSE "div"
                 f == factor(toks, advance(toks, idx))
             IN  IF f.exc # NoExc THEN Raise(f)
                 ELSE termLoop(toks, f.idx, TermFold(op, node, f.node))
        ELSE [node |-> node, idx |-> idx, exc |-> NoExc]

term(toks, idx) ==
    LET f == factor(toks, idx)
    IN  IF f.exc # NoExc THEN Raise(f) ELSE termLoop(toks, f.idx, f.node)

\* Variant: the accumulated node becomes the right child.
ExprFoldSwapped(op, node, right) == <<"binop", op, right, node>>

ExprFold(op, node, right) == <<"binop", op, node, right>>

exprLoop(toks, idx, node) ==
    LET cur == Current(toks, idx)
    IN  IF cur # None /\ cur[1] \in {"+", "-"}
        THEN LET op == IF cur[1] = "+" THEN "add" ELSE "sub"
                 t == term(toks, advance(toks, idx))
             IN  IF t.exc # NoExc THEN Raise(t)
                 ELSE exprLoop(toks, t.idx, ExprFold(op, node, t.node))
        ELSE [node |-> node, idx |-> idx, exc |-> NoExc]

expr(toks, idx) ==
    LET t == term(toks, idx)
    IN  IF t.exc # NoExc THEN Raise(t) ELSE exprLoop(toks, t.idx, t.node)

\* Parser.__init__: token_index = -1, then advance().
NewParser ==
    /\ pc = "lexed"
    /\ pc' = "parser"
    /\ parser_tokens' = tokens
    /\ token_index' = advance(tokens, -1)
    /\ current_token' = Current(tokens, advance(tokens, -1))
    /\ UNCHANGED <<lexVars, ret, tableVars>>

\* A call of a Parser method: the cursor moves as far as the call got.
Called(method, arg, r) ==
    /\ token_index' = r.idx
    /\ current_token' = Current(parser_tokens, r.idx)
    /\ ret' = <<method, arg, r.node, r.exc, token_index>>
    /\ UNCHANGED <<parser_tokens, lexVars, tableVars>>

\* main(): parse_tree = parser.expr()
MainExpr ==
    /\ pc = "parser"
    /\ pc' = "parsed"
    /\ Called("expr", "", expr(parser_tokens, token_index))

----------------------------------------------------------------------------
(* Symbol tables.  A name is a string, written as its sequence of code       *)
(* points so that Python's < and > on str are the lexicographic order.       *)

RECURSIVE StrLess(_, _)
StrLess(a, b) ==
    IF b = <<>> THEN FALSE
    ELSE IF a = <<>> THEN TRUE
    ELSE IF Head(a) # Head(b) THEN Head(a) < Head(b)
    ELSE StrLess(Tail(a), Tail(b))

Min(S) == CHOOSE i \in S : \A j \in S : i <= j

\* Index of the first <<name, value>> pair of a list whose name is name, 0 if none.
FirstIndex(list, name) ==
    LET hits == {i \in 1..Len(list) : list[i][1] = name}
    IN  IF hits = {} THEN 0 ELSE Min(hits)

\* OrderedSymbolTable
OrderedAddSymbol(list, name, value) == Append(list, <<name, value>>)

\* Variant: the scan keeps the last matching pair instead of returning the first.
OrderedGetLast(list, name) ==
    LET hits == {i \in 1..Len(list) : list[i][1] = name}
    IN  IF hits = {} THEN None
        ELSE list[CHOOSE i \in hits : \A j \in hits : j <= i][2]

OrderedGetSymbol(list, name) ==
    LET i == FirstIndex(list, name)
    IN  IF i = 0 THEN None ELSE list[i][2]

\* UnorderedSymbolTable: a dict is a function on the set of its keys.
\* Variant: dict.setdefault, an existing key keeps its value.
UnorderedAddSymbolKeep(dict, name, value) ==
    IF name \in DOMAIN dict THEN dict
    ELSE [k \in (DOMAIN dict) \cup {name} |-> IF k = name THEN value ELSE dict[k]]

UnorderedAddSymbol(dict, name, value) ==
    [k \in (DOMAIN dict) \cup {name} |-> IF k = name THEN value ELSE dict[k]]

UnorderedGetSymbol(dict, name) ==
    IF name \in DOMAIN dict THEN dict[name] ELSE None

\* TreeStructuredSymbolTable: a TreeNode is <<name, value, left, right>>.
TreeNode(name, value) == <<name, value, None, None>>

RECURSIVE _add_symbol_recursively(_, _, _)
_add_symbol_recursively(node, name, value) ==
    IF StrLess(name, node[1])
    THEN IF node[3] # None
         THEN <<node[1], node[2], _add_symbol_recursively(node[3], name, value), node[4]>>
         ELSE <<node[1], node[2], TreeNode(name, value), node[4]>>
    ELSE IF StrLess(node[1], name)
    THEN IF node[4] # None
         THEN <<node[1], node[2], node[3], _add_symbol_recursively(node[4], name, value)>>
         ELSE <<node[1], node[2], node[3], TreeNode(name, value)>>
    ELSE node

TreeAddSymbol(r, name, value) ==
    IF r = None THEN TreeNode(name, value) ELSE _add_symbol_recursively(r, name, value)

RECURSIVE _get_symbol_recursively(_, _)
_get_symbol_recursively(node, name) ==
    IF node = None THEN None
    ELSE IF name = node[1] THEN node[2]
    ELSE IF StrLess(name, node[1]) THEN _get_symbol_recursively(node[3], name)
    ELSE _get_symbol_recursively(node[4], name)

TreeGetSymbol(r, name) == _get_symbol_recursively(r, name)

\* HashSymbolTable: table[i + 1] is bucket i, None or a list of <<name, value>>.
\* size is at least 1 (hash(key) % 0 raises ZeroDivisionError in every method).
hash_function(key) == hashOf[key] % size

\* Variant: no scan for an existing name, the pair is always appended.
HashAddSymbolAppend(tbl, name, value) ==
    LET index == hash_function(name) + 1
        bucket == tbl[index]
    IN  IF bucket = None \/ bucket = <<>>
        THEN [tbl EXCEPT ![index] = <<<<name, value>>>>]
        ELSE [tbl EXCEPT ![index] = Append(bucket, <<name, value>>)]

HashAddSymbol(tbl, name, value) ==
    LET index == hash_function(name) + 1
        bucket == tbl[index]
    IN  IF bucket = None \/ bucket = <<>>
        THEN [tbl EXCEPT ![index] = <<<<name, value>>>>]
        ELSE LET i == FirstIndex(bucket, name)
             IN  IF i # 0
                 THEN [tbl EXCEPT ![index][i] = <<name, value>>]
                 ELSE [tbl EXCEPT ![index] = Append(bucket, <<name, value>>)]

HashGetSymbol(tbl, name) ==
    LET bucket == tbl[hash_function(name) + 1]
    IN  IF bucket = None \/ bucket = <<>> THEN None
        ELSE LET i == FirstIndex(bucket, name)
             IN  IF i = 0 THEN None ELSE bucket[i][2]

\* The names and values the driver passes.
Keys == {<<120>>, <<120, 121>>, <<121>>}      \* "x", "xy", "y"
Values == {<<"v1">>, <<"v2">>}
HashValues == {-2, 0, 5}                     \* values of hash(name)

\* The record of the add_symbol calls made (history, not program state).
Logged(name, value) ==
    /\ firstAdd' = IF firstAdd[name] = None THEN [firstAdd EXCEPT ![name] = value]
                   ELSE firstAdd
    /\ lastAdd' = [lastAdd EXCEPT ![name] = value]

OrderedAdd ==
    /\ pc = "tables" /\ cls = "Ordered"
    /\ Len(symbols) < MaxAdds
    /\ \E name \in Keys, value \in Values :
          /\ symbols' = OrderedAddSymbol(symbols, name, value)
          /\ Logged(name, value)
    /\ UNCHANGED <<pc, lexVars, parserVars, cls, usymbols, root, table, size, hashOf, got>>

UnorderedAdd ==
    /\ pc = "tables" /\ cls = "Unordered"
    /\ \E name \in Keys, value \in Values :
          /\ usymbols' = UnorderedAddSymbol(usymbols, name, value)
          /\ Logged(name, value)
    /\ UNCHANGED <<pc, lexVars, parserVars, cls, symbols, root, table, size, hashOf, got>>

TreeAdd ==
    /\ pc = "tables" /\ cls = "Tree"
    /\ \E name \in Keys, value \in Values :
          /\ root' = TreeAddSymbol(root, name, value)
          /\ Logged(name, value)
    /\ UNCHANGED <<pc, lexVars, parserVars, cls, symbols, usymbols, table, size, hashOf, got>>

HashAdd ==
    /\ pc = "tables" /\ cls = "Hash"
    /\ \E name \in Keys, value \in Values :
          /\ table' = HashAddSymbol(table, name, value)
          /\ Logged(name, value)
    /\ UNCHANGED <<pc, lexVars, parserVars, cls, symbols, usymbols, root, size, hashOf, got>>

\* get_symbol of the table object at hand.
get_symbol(name) ==
    CASE cls = "Ordered"   -> OrderedGetSymbol(symbols, name)
      [] cls = "Unordered" -> UnorderedGetSymbol(usymbols, name)
      [] cls = "Tree"      -> TreeGetSymbol(root, name)
      [] cls = "Hash"      -> HashGetSymbol(table, name)

GetSymbol ==
    /\ pc = "tables"
    /\ \E name \in Keys : got' = <<name, get_symbol(name)>>
    /\ UNCHANGED <<pc, lexVars, parserVars, cls, symbols, usymbols, root, table, size,
                   hashOf, firstAdd, lastAdd>>

----------------------------------------------------------------------------
(* Inputs *)

Alphabet == {"a", "1", "+", "\"", "#", "\n", " ", "@"}

BoundedTexts == UNION {[1..n -> Alphabet] : n \in 0..MaxLen}

TextComment == <<"x", " ", "=", " ", "1", " ", "#", " ", "c", "o", "m", "m", "e", "n", "t">>   \* 'x = 1 # comment'
TextPrecedence == <<"2", " ", "+", " ", "3", " ", "*", " ", "4">>   \* '2 + 3 * 4'
TextPrecedenceTight == <<"2", "+", "3", "*", "4">>   \* '2+3*4'
TextLeftAssoc == <<"8", " ", "-", " ", "3", " ", "-", " ", "2">>   \* '8 - 3 - 2'
TextParens == <<"(", "2", " ", "+", " ", "3", ")", " ", "*", " ", "4">>   \* '(2 + 3) * 4'
TextIdent == <<"a", "b", "c", "1", "2", "3">>   \* 'abc123'

ExampleTexts ==
    {TextComment, TextPrecedence, TextPrecedenceTight, TextLeftAssoc, TextParens, TextIdent}

Texts == BoundedTexts \cup ExampleTexts

\* Hand-built token sequences: the kind of each token is free, its text is
\* fixed by its kind and its position (the parser never reads a token's text,
\* it only copies it into a leaf).
OperandKinds == {"NUMBER", "IDENTIFIER", "STRING"}
OperatorKinds == {"+", "-", "*", "/"}
Kinds == OperandKinds \cup OperatorKinds \cup {"(", ")", "OPERATOR"}

PosDigit == <<"1", "2", "3", "4", "5", "6", "7", "8", "9">>
PosLetter == <<"a", "b", "c", "d", "e", "f", "g", "h", "i">>

TokenAt(kind, i) ==
    CASE kind = "NUMBER"     -> <<kind, <<PosDigit[i]>>>>
      [] kind = "IDENTIFIER" -> <<kind, <<PosLetter[i]>>>>
      [] kind = "STRING"     -> <<kind, <<"\"", PosLetter[i], "\"">>>>
      [] kind = "OPERATOR"   -> <<kind, <<"=">>>>
      [] OTHER               -> <<kind, <<kind>>>>

TokenSeq(kinds) == [i \in 1..Len(kinds) |-> TokenAt(kinds[i], i)]

BoundedTokens == {TokenSeq(k) : k \in UNION {[1..n -> Kinds] : n \in 0..MaxTokens}}

\* operand (operator operand)*
ChainOperandKinds == {"NUMBER", "IDENTIFIER"}

IsChain(kinds) ==
    /\ Len(kinds) % 2 = 1
    /\ \A i \in 1..Len(kinds) :
          IF i % 2 = 1 THEN kinds[i] \in ChainOperandKinds ELSE kinds[i] \in OperatorKinds

ChainKinds(n) ==
    {k \in [1..(2 * n - 1) -> ChainOperandKinds \cup OperatorKinds] : IsChain(k)}

ChainTokens == {TokenSeq(k) : k \in UNION {ChainKinds(n) : n \in 1..MaxOperands}}

\* The token_type arguments the code calls eat with.
EatKinds == {"NUMBER", "IDENTIFIER", "STRING", "(", ")"}

----------------------------------------------------------------------------
(* Calls on a constructed Parser *)

\* Any Parser method may be called on a constructed parser.
CallEat ==
    /\ pc = "parser"
    /\ \E token_type \in EatKinds :
          Called("eat", token_type, eat(parser_tokens, token_index, token_type))
    /\ UNCHANGED pc

CallFactor ==
    /\ pc = "parser"
    /\ Called("factor", "", factor(parser_tokens, token_index))
    /\ UNCHANGED pc

CallTerm ==
    /\ pc = "parser"
    /\ Called("term", "", term(parser_tokens, token_index))
    /\ UNCHANGED pc

CallExpr ==
    /\ pc = "parser"
    /\ Called("expr", "", expr(parser_tokens, token_index))
    /\ UNCHANGED pc

----------------------------------------------------------------------------
(* Specifications *)

ParserIdle ==
    /\ parser_tokens = <<>>
    /\ token_index = -1
    /\ current_token = None
    /\ ret = <<>>

LexerIdle ==
    /\ code = <<>>
    /\ pos = 0
    /\ tokens = <<>>
    /\ spans = <<>>

TablesIdle ==
    /\ cls = "none"
    /\ symbols = <<>>
    /\ usymbols = <<>>
    /\ root = None
    /\ table = <<>>
    /\ size = 0
    /\ hashOf = <<>>
    /\ firstAdd = <<>>
    /\ lastAdd = <<>>
    /\ got = <<>>

\* main(): Lexer(code), Parser(tokens), parser.expr()
Init ==
    /\ pc = "tokenize"
    /\ code \in Texts
    /\ pos = 0
    /\ tokens = <<>>
    /\ spans = <<>>
    /\ ParserIdle
    /\ TablesIdle

Next == TokenizeStep \/ TokenizeReturn \/ NewParser \/ MainExpr

Spec == Init /\ [][Next]_vars

\* A Parser constructed on a hand-built token sequence, then any calls.
InitParser ==
    /\ pc = "parser"
    /\ LexerIdle
    /\ parser_tokens \in BoundedTokens \cup ChainTokens
    /\ token_index = advance(parser_tokens, -1)
    /\ current_token = Current(parser_tokens, advance(parser_tokens, -1))
    /\ ret = <<>>
    /\ TablesIdle

NextParser == CallEat \/ CallFactor \/ CallTerm \/ CallExpr

SpecParser == InitParser /\ [][NextParser]_vars

\* One freshly constructed symbol table, then any add_symbol / get_symbol calls.
\* The four tables share no state; a behaviour follows one object.
InitTables ==
    /\ pc = "tables"
    /\ LexerIdle
    /\ ParserIdle
    /\ cls \in {"Ordered", "Unordered", "Tree", "Hash"}
    /\ symbols = <<>>
    /\ usymbols = <<>>
    /\ root = None
    /\ size \in IF cls = "Hash" THEN 1..MaxSize ELSE {0}
    /\ table = [i \in 1..size |-> None]
    /\ hashOf \in IF cls = "Hash" THEN [Keys -> HashValues] ELSE {<<>>}
    /\ firstAdd = [k \in Keys |-> None]
    /\ lastAdd = [k \in Keys |-> None]
    /\ got = <<>>

NextTables == OrderedAdd \/ UnorderedAdd \/ TreeAdd \/ HashAdd \/ GetSymbol

SpecTables == InitTables /\ [][NextTables]_vars

\* The scanner under the scheduling of a single thread: the loop runs on.
SpecLive == Init /\ [][Next]_vars /\ WF_vars(Next)

----------------------------------------------------------------------------
(* Properties *)

LastCall(method) == ret # <<>> /\ ret[1] = method
RetNode == ret[3]
RetExc == ret[4]
RetFrom == ret[5]

IsSyntaxError(exc) == Len(exc) = 3 /\ exc[1] = "SyntaxError"

Num(c) == <<"number", <<c>>>>
Tok(kind, c) == <<kind, <<c>>>>

\* C1: the tokens tokenize produces for a + b * c, given to Parser, make
\* expr() return BinaryOp(add, Number(a), BinaryOp(mul, Number(b), Number(c))).
C1_PipelinePrecedence ==
    (pc = "parsed" /\ code \in {TextPrecedence, TextPrecedenceTight})
        => /\ RetExc = NoExc
           /\ RetNode = <<"binop", "add", Num("2"),
                          <<"binop", "mul", Num("3"), Num("4")>>>>

\* "(" operand (operator operand)* with no closing ")"
UnclosedParen(toks) ==
    /\ Len(toks) >= 2
    /\ toks[1][1] = "("
    /\ IsChain([i \in 1..(Len(toks) - 1) |-> toks[i + 1][1]])

\* C2: eat(expectedKind) raises SyntaxError whenever it does not advance, on a
\* wrong kind and on a missing token alike; parsing "(" with its ")" missing
\* ends in a SyntaxError that names ")" as expected.
C2_EatRaisesSyntaxError ==
    /\ (LastCall("eat") /\ token_index = RetFrom)
          => (IsSyntaxError(RetExc) /\ RetExc[2] = ret[2])
    /\ (LastCall("expr") /\ RetFrom = 0 /\ UnclosedParen(parser_tokens))
          => (IsSyntaxError(RetExc) /\ RetExc[2] = ")")

RECURSIVE WellFormed(_)
WellFormed(node) ==
    \/ Len(node) = 2 /\ node[1] \in {"number", "identifier", "string"}
    \/ /\ Len(node) = 4
       /\ node[1] = "binop"
       /\ node[2] \in {"add", "sub", "mul", "div"}
       /\ WellFormed(node[3])
       /\ WellFormed(node[4])

FactorKinds == {"NUMBER", "IDENTIFIER", "STRING", "("}

\* C3: factor() at end of input, or at a token that is no Number, Identifier,
\* String or "(", raises SyntaxError and never returns None; so every tree
\* expr() returns is well-formed.
C3_FactorNeverReturnsNone ==
    /\ (/\ LastCall("factor")
        /\ \/ RetFrom >= Len(parser_tokens)
           \/ parser_tokens[RetFrom + 1][1] \notin FactorKinds)
          => IsSyntaxError(RetExc)
    /\ (LastCall("expr") /\ RetExc = NoExc) => WellFormed(RetNode)

RECURSIVE ConcatValues(_)
ConcatValues(list) ==
    IF list = <<>> THEN <<>> ELSE list[1][2] \o ConcatValues(Tail(list))

NotComment(span) == span[1] # "COMMENT"

\* C4: the spans the loop iterations consume (token texts, single-character
\* Invalid tokens, skipped comments) are contiguous and in order: after every
\* iteration they concatenate to the text read so far, and to the whole text
\* once tokenize returns; the emitted tokens are these spans minus the comments.
C4_RoundTrip ==
    /\ pos <= Len(code)
    /\ ConcatValues(spans) = SubSeq(code, 1, pos)
    /\ (pc # "tokenize" => ConcatValues(spans) = code)
    /\ tokens = SelectSeq(spans, NotComment)
    /\ \A i \in 1..Len(spans) : spans[i][1] = "INVALID" => Len(spans[i][2]) = 1

C4_Witness ==
    /\ pc = "lexed"
    /\ code = TextComment
    /\ \E i, j \in 1..Len(spans) : spans[i][1] = "COMMENT" /\ spans[j][1] = "INVALID"

\* C5: tokenize terminates on every text and never fails: each iteration
\* strictly increases pos (by a non-empty match, or by 1 with one
\* single-character Invalid token), pos never exceeds the text length, and
\* the empty text yields the empty token sequence.
C5_Terminates ==
    /\ [][pc = "tokenize" /\ pc' = "tokenize" =>
            /\ pos < pos'
            /\ pos' <= Len(code)
            /\ (FirstMatch(code, pos) = 0 =>
                    /\ pos' = pos + 1
                    /\ tokens' = Append(tokens, <<"INVALID", <<code[pos + 1]>>>>))]_vars
    /\ [](pos <= Len(code))
    /\ []((pc # "tokenize" /\ code = <<>>) => tokens = <<>>)
    /\ <>(pc # "tokenize")

C5_Witness ==
    /\ pc = "lexed"
    /\ Len(code) = MaxLen
    /\ \E i, j \in 1..Len(tokens) : tokens[i][1] = "INVALID" /\ Len(tokens[j][2]) > 1

\* C6: tokenize on `x = 1 # comment` returns exactly
\* [Identifier x, Operator =, Number 1].
C6_CommentExample ==
    (pc # "tokenize" /\ code = TextComment)
        => tokens = <<Tok("IDENTIFIER", "x"), Tok("OPERATOR", "="), Tok("NUMBER", "1")>>

KindsOf(toks) == [i \in 1..Len(toks) |-> toks[i][1]]
OpsOf(toks) == {toks[i][1] : i \in {j \in 1..Len(toks) : j % 2 = 0}}

LeafOf(token) ==
    CASE token[1] = "NUMBER"     -> <<"number", token[2]>>
      [] token[1] = "IDENTIFIER" -> <<"identifier", token[2]>>
      [] token[1] = "STRING"     -> <<"string", token[2]>>

OpName(kind) ==
    CASE kind = "+" -> "add" [] kind = "-" -> "sub"
      [] kind = "*" -> "mul" [] kind = "/" -> "div"

\* The left-nested tree of the first n operands of a chain, and the
\* right-nested tree of its operands from the n-th on.
RECURSIVE LeftNested(_, _)
LeftNested(toks, n) ==
    IF n = 1 THEN LeafOf(toks[1])
    ELSE <<"binop", OpName(toks[2 * n - 2][1]), LeftNested(toks, n - 1),
           LeafOf(toks[2 * n - 1])>>

RECURSIVE RightNested(_, _)
RightNested(toks, n) ==
    IF 2 * n - 1 = Len(toks) THEN LeafOf(toks[2 * n - 1])
    ELSE <<"binop", OpName(toks[2 * n][1]), LeafOf(toks[2 * n - 1]),
           RightNested(toks, n + 1)>>

SameLoopChain(toks, ops) == IsChain(KindsOf(toks)) /\ OpsOf(toks) \subseteq ops

\* C7: on operand op1 operand op2 operand ... with every operator taken by the
\* same loop (+ and - by expr(), * and / by term()) the parser returns the
\* left-nested tree, never the right-nested one, for chains of any length.
C7_LeftAssociative ==
    \A loop \in {<<"expr", {"+", "-"}>>, <<"term", {"*", "/"}>>} :
        (LastCall(loop[1]) /\ RetFrom = 0 /\ SameLoopChain(parser_tokens, loop[2]))
            => /\ RetExc = NoExc
               /\ token_index = Len(parser_tokens)
               /\ RetNode = LeftNested(parser_tokens, (Len(parser_tokens) + 1) \div 2)
               /\ (Len(parser_tokens) >= 5 => RetNode # RightNested(parser_tokens, 1))

C7_Witness ==
    /\ LastCall("expr")
    /\ RetFrom = 0
    /\ KindsOf(parser_tokens) = <<"NUMBER", "-", "NUMBER", "-", "NUMBER">>
    /\ RetNode = <<"binop", "sub", <<"binop", "sub", Num("1"), Num("3")>>, Num("5")>>

\* C8: in the Ordered and Tree tables get_symbol(k) returns the value of the
\* first add_symbol call made with k, whatever calls follow.
C8_FirstWriteWins ==
    cls \in {"Ordered", "Tree"} => \A k \in Keys : get_symbol(k) = firstAdd[k]

C8_Witness ==
    /\ cls = "Ordered"
    /\ \E k \in Keys :
          /\ firstAdd[k] # None
          /\ lastAdd[k] # firstAdd[k]
          /\ got = <<k, firstAdd[k]>>
          /\ \E i \in 1..Len(symbols) : symbols[i][1] # k

\* C9: in the Unordered and Hashed tables get_symbol(k) returns the value of
\* the latest add_symbol call made with k, other names in its bucket or not.
C9_LastWriteWins ==
    cls \in {"Unordered", "Hash"} => \A k \in Keys : get_symbol(k) = lastAdd[k]

C9_Witness ==
    /\ cls = "Hash"
    /\ \E k, other \in Keys :
          /\ k # other
          /\ hash_function(k) = hash_function(other)
          /\ lastAdd[other] # None
          /\ firstAdd[k] # None
          /\ lastAdd[k] # firstAdd[k]
          /\ got = <<k, lastAdd[k]>>

\* The <<name, value>> entries a table's backing storage holds.
RECURSIVE TreeEntries(_)
TreeEntries(node) ==
    IF node = None THEN <<>>
    ELSE TreeEntries(node[3]) \o <<<<node[1], node[2]>>>> \o TreeEntries(node[4])

RECURSIVE BucketEntries(_)
BucketEntries(tbl) ==
    IF tbl = <<>> THEN <<>>
    ELSE (IF Head(tbl) = None THEN <<>> ELSE Head(tbl)) \o BucketEntries(Tail(tbl))

RECURSIVE DictEntries(_)
DictEntries(dict) ==
    IF DOMAIN dict = {} THEN <<>>
    ELSE LET k == CHOOSE x \in DOMAIN dict : TRUE
         IN  <<<<k, dict[k]>>>> \o DictEntries([x \in (DOMAIN dict) \ {k} |-> dict[x]])

Entries ==
    CASE cls = "Ordered"   -> symbols
      [] cls = "Unordered" -> DictEntries(usymbols)
      [] cls = "Tree"      -> TreeEntries(root)
      [] cls = "Hash"      -> BucketEntries(table)

KeysUnique == \A i, j \in 1..Len(Entries) : Entries[i][1] = Entries[j][1] => i = j
StoredIsLatest == \A i \in 1..Len(Entries) : Entries[i][2] = lastAdd[Entries[i][1]]
StoredIsFirst == \A i \in 1..Len(Entries) : Entries[i][2] = firstAdd[Entries[i][1]]
AllAddedStored == \A k \in Keys : firstAdd[k] # None => \E i \in 1..Len(Entries) : Entries[i][1] = k

\* C10 as stated: in each of the four tables no key is stored more than once,
\* and add_symbol with a key already present overwrites the stored value.
C10_UniqueKeysUpsert == KeysUnique /\ StoredIsLatest

\* C10 as amended: keys are unique in the Unordered, Tree and Hashed tables;
\* add_symbol with a key already present overwrites the stored value in the
\* Unordered and Hashed tables, leaves the stored value in place in the Tree
\* table, and appends a further entry after the existing ones in the Ordered
\* table.
C10_UniqueKeysUpsertAmended ==
    /\ AllAddedStored
    /\ cls \in {"Unordered", "Hash"} => KeysUnique /\ StoredIsLatest
    /\ cls = "Tree" => KeysUnique /\ StoredIsFirst
    /\ cls = "Ordered" =>
          \A k \in Keys : firstAdd[k] # None =>
              LET hits == {i \in 1..Len(symbols) : symbols[i][1] = k}
              IN  /\ symbols[Min(hits)][2] = firstAdd[k]
                  /\ symbols[CHOOSE i \in hits : \A j \in hits : j <= i][2] = lastAdd[k]
                  /\ (lastAdd[k] # firstAdd[k] => Cardinality(hits) >= 2)

C10_Witness ==
    /\ cls = "Tree"
    /\ \A k \in Keys : firstAdd[k] # None
    /\ \E k \in Keys : lastAdd[k] # firstAdd[k] /\ got = <<k, firstAdd[k]>>

====
